---- MODULE Spec2Model ----
(***************************************************************************)
(* Model of the Stitch OAuth2 authorization-code-with-PKCE client          *)
(* (src/stitch/__init__.py) together with the SQLite token store of the    *)
(* example server (src/example/server.py).                                 *)
(*                                                                         *)
(* Every request of the Flask server runs on its own thread; a thread is   *)
(* a process p of the model.  A method of class Stitch is split at its     *)
(* blocking HTTP calls (requests.post): the code up to the call is one     *)
(* action, the code from the response to the next call (or to the return)  *)
(* is the next one.  The provider (token endpoint, data API) is the        *)
(* environment and answers every request with any of its possible          *)
(* responses.                                                              *)
(*                                                                         *)
(* Spec is the server at work.  RoundTripSpec takes TokenDetails through   *)
(* to_json and from_json on a clock finer than the second.                 *)
(***************************************************************************)
EXTENDS Integers, Sequences, FiniteSets, TLC

\* ------------------------------------------------------------------ bounds
MaxTime == 1        \* the clock runs over 0..MaxTime (seconds)
MaxOps == 3         \* number of Stitch / store operations started
ExpiresIn == 1      \* the lifetime (seconds) of the token sets the provider issues
TicksPerSecond == 2 \* RoundTripSpec: its clock counts ticks, this many to a second
MaxSeconds == 3     \* RoundTripSpec: clock and expiry times run over 0..MaxSeconds s

\* --------------------------------------------------------------- constants
AssertionLifetime == 3600

Users == {1, 2}     \* rows of table users (user_stitch_tokens.user_id refers to them)
Procs == {1, 2}     \* request threads
Codes == {"abc123"} \* authorization codes the provider redirects back with

client_id == "test-client"
client_secret == "test-cert"
redirect_uri == "http://localhost:3000/return"
TokenUrl == "https://secure.stitch.money/connect/token"
GraphqlUrl == "https://api.stitch.money/graphql"

\* "absent" values; records, so that they compare with the records they stand in for
NoToken == [none |-> "token"]
NoRow == <<>>
NoReq == [none |-> "request"]
NoMsg == [kind |-> "none"]
NoRet == [none |-> "ret"]

VARIABLES
    now,        \* time.time(), in whole seconds
    store,      \* table user_stitch_tokens: user_id -> row or NoRow
    pending,    \* Stitch._pending_authorization_requests
    nextRand,   \* index of the next secrets.token_bytes(32) value (each is fresh)
    nextJti,    \* index of the next uuid.uuid4() value (each is fresh)
    issued,     \* provider: number of token sets issued so far
    latest,     \* provider: serial of the token set last issued for a user
    redirects,  \* authorization URLs returned to each user's browser
    ops,        \* number of operations started
    pc,         \* position of each thread
    call,       \* the method each thread is running and its local variables
    net,        \* the HTTP request or response in flight for each thread
    last        \* what the operation that ended last gave its caller

vars == <<now, store, pending, nextRand, nextJti, issued, latest, redirects,
          ops, pc, call, net, last>>

\* ------------------------------------------------------------ TokenDetails

\* TokenDetails.is_expired, evaluated at time t
is_expired(td, t) == td.expires_at_seconds_from_epoch > t

TokenFields == {"id_token", "access_token", "expires_in", "token_type",
                "refresh_token", "scope"}

\* json.loads(s) in from_json: content that is no JSON document (kept as a
\* record with the one field raw) raises JSONDecodeError
Parses(content) == "raw" \notin DOMAIN content

\* TokenDetails.from_json on a decoded body, evaluated at time t;
\* a body lacking one of the keys raises KeyError (see Decodes)
Decodes(body) == Parses(body) /\ TokenFields \subseteq DOMAIN body

\* from_json taking expires_in for the absolute time of expiry
from_json_absolute(body, t) ==
    [id_token |-> body.id_token,
     access_token |-> body.access_token,
     expires_at_seconds_from_epoch |-> body.expires_in,
     token_type |-> body.token_type,
     refresh_token |-> body.refresh_token,
     scope |-> body.scope]

from_json(body, t) ==
    [id_token |-> body.id_token,
     access_token |-> body.access_token,
     expires_at_seconds_from_epoch |-> t + body.expires_in,
     token_type |-> body.token_type,
     refresh_token |-> body.refresh_token,
     scope |-> body.scope]

\* int(x) of a time difference of x ticks: the whole seconds in it, rounded
\* towards zero
Truncate(x) ==
    IF x >= 0 THEN x \div TicksPerSecond ELSE 0 - ((0 - x) \div TicksPerSecond)

\* to_json without the clamp of a negative expires_in
to_json_unclamped(td, t) ==
    [id_token |-> td.id_token,
     access_token |-> td.access_token,
     expires_in |-> Truncate(td.expires_at_seconds_from_epoch - t),
     token_type |-> td.token_type,
     refresh_token |-> td.refresh_token,
     scope |-> td.scope]

\* TokenDetails.to_json at time t, td's expiry and t in ticks; the JSON's
\* expires_in is in seconds
to_json(td, t) ==
    LET expires_in == Truncate(td.expires_at_seconds_from_epoch - t)
    IN  [id_token |-> td.id_token,
         access_token |-> td.access_token,
         expires_in |-> IF expires_in < 0 THEN 0 ELSE expires_in,
         token_type |-> td.token_type,
         refresh_token |-> td.refresh_token,
         scope |-> td.scope]

\* json.loads of what to_json dumped, its expires_in (seconds) in the unit of
\* a clock that counts ticks
LoadsInTicks(json) == [json EXCEPT !.expires_in = @ * TicksPerSecond]

\* ------------------------------------------------------ SqliteUserTokenStore

\* the tuple bound to the insert statement, in column order
td_as_tuple(td) ==
    <<td.id_token, td.access_token, td.expires_at_seconds_from_epoch,
      td.token_type, td.refresh_token, td.scope>>

\* TokenDetails(*res) of the selected row
TokenDetailsOfRow(res) ==
    [id_token |-> res[1],
     access_token |-> res[2],
     expires_at_seconds_from_epoch |-> res[3],
     token_type |-> res[4],
     refresh_token |-> res[5],
     scope |-> res[6]]

\* a select that skips the rows that have lapsed
\* (... where user_id = ? and expires_at > now)
get_token_details_fresh_only(st, user) ==
    IF st[user] = NoRow \/ st[user][3] <= now
    THEN NoToken
    ELSE TokenDetailsOfRow(st[user])

\* get_token_details handing back an empty TokenDetails, not None, when the
\* select finds no row
get_token_details_blank(st, user) ==
    IF st[user] = NoRow
    THEN TokenDetailsOfRow(<<"", "", 0, "", "", "">>)
    ELSE TokenDetailsOfRow(st[user])

get_token_details(st, user) ==
    IF st[user] = NoRow THEN NoToken ELSE TokenDetailsOfRow(st[user])

\* an insert that leaves the row alone when the user already has one
\* (insert or ignore)
set_token_details_insert_only(st, user, td) ==
    IF st[user] = NoRow THEN [st EXCEPT ![user] = td_as_tuple(td)] ELSE st

\* insert ... on conflict(user_id) do update set ...
set_token_details(st, user, td) == [st EXCEPT ![user] = td_as_tuple(td)]

\* a delete that keeps the rows that lapse at this very instant
delete_expired_tokens_strict(st, t) ==
    [u \in Users |-> IF st[u] # NoRow /\ st[u][3] < t THEN NoRow ELSE st[u]]

\* delete from user_stitch_tokens where expires_at <= now
delete_expired_tokens(st, t) ==
    [u \in Users |-> IF st[u] # NoRow /\ st[u][3] <= t THEN NoRow ELSE st[u]]

\* ------------------------------------------------------------------ Stitch

\* should_authorize that also asks for authorization when the row exists but
\* its token has lapsed
should_authorize_lapsed(st, user) ==
    \/ get_token_details(st, user) = NoToken
    \/ get_token_details(st, user).expires_at_seconds_from_epoch <= now

should_authorize(st, user) == get_token_details(st, user) = NoToken

\* Stitch._get_token(user) at time t, up to its first return or post: it
\* returns None when the store has no token of the user (nothing is raised),
\* goes on to post a refresh when is_expired() says so, and returns the
\* stored token otherwise
get_token(st, user, t) ==
    LET td == get_token_details(st, user)
    IN  IF td = NoToken
        THEN [outcome |-> "returned", td |-> NoToken]
        ELSE IF is_expired(td, t)
        THEN [outcome |-> "refresh", td |-> td]
        ELSE [outcome |-> "returned", td |-> td]

\* _encode_bytes_to_base64_str of the n-th 32 random bytes: a 43-character
\* string over A-Z a-z 0-9 - _ ; distinct draws give distinct strings
encode_bytes_to_base64_str(n) == <<"b64", n>>

gen_random_base64_str(n) == encode_bytes_to_base64_str(n)

\* _encode_bytes_to_base64_str(sha256(verifier.encode("utf-8")).digest()):
\* a collision-free tag of the verifier
Sha256B64(verifier) == <<"S256", verifier>>

\* a generator that hashes the random bytes themselves, not the verifier
\* string made of them
gen_code_challenge_of_bytes(n) ==
    <<Sha256B64(<<"bytes", n>>), encode_bytes_to_base64_str(n)>>

\* _gen_code_challenge_and_verifier over the n-th 32 random bytes
gen_code_challenge_and_verifier(n) ==
    LET verifier == encode_bytes_to_base64_str(n)
    IN  <<Sha256B64(verifier), verifier>>

\* a state value that no initiate_authorization issued (draws are numbered from 1)
ForgedState == encode_bytes_to_base64_str(0)

\* urllib.parse.quote keeps letters, digits and _ . - ~ / and percent-encodes
\* the rest.  On the fixed parameter strings:
quote(v) ==
    CASE v = "openid accounts offline_access" -> "openid%20accounts%20offline_access"
      [] v = "http://localhost:3000/return" -> "http%3A//localhost%3A3000/return"
      [] OTHER -> v

\* urllib.parse.quote on a base64url string or challenge: every character of
\* it is kept
quote_b64(v) == v

\* an assertion whose jti is the same on every call
encode_client_jwt_fixed_jti(t, j) ==
    [alg |-> "RS256",
     key |-> client_secret,
     payload |-> [aud |-> TokenUrl,
                  iss |-> client_id,
                  sub |-> client_id,
                  jti |-> 1,
                  iat |-> t,
                  nbf |-> t,
                  exp |-> t + AssertionLifetime]]

\* Stitch._encode_client_jwt at time t with the j-th uuid4
encode_client_jwt(t, j) ==
    [alg |-> "RS256",
     key |-> client_secret,
     payload |-> [aud |-> TokenUrl,
                  iss |-> client_id,
                  sub |-> client_id,
                  jti |-> j,
                  iat |-> t,
                  nbf |-> t,
                  exp |-> t + AssertionLifetime]]

\* one pending request shared by all users instead of one per user
pending_put_shared(pend, user, req) == [v \in DOMAIN pend |-> req]

\* self._pending_authorization_requests[user] = {...}
pending_put(pend, user, req) == [pend EXCEPT ![user] = req]

\* a lookup that falls back to an empty request instead of raising KeyError
pending_lookup_default(pend, user) ==
    IF pend[user] = NoReq
    THEN [code_verifier |-> ForgedState, state |-> ForgedState]
    ELSE pend[user]

\* self._pending_authorization_requests[user]  (NoReq: the lookup raises KeyError)
pending_lookup(pend, user) == pend[user]

\* ----------------------------------------------------------- provider data

\* the JSON body of a successful token response: the n-th token set the
\* provider issues, with lifetime e
TokenJson(n, e) ==
    [id_token |-> <<"id", n>>,
     access_token |-> <<"at", n>>,
     expires_in |-> e,
     token_type |-> "Bearer",
     refresh_token |-> <<"rt", n>>,
     scope |-> "openid accounts offline_access"]

ErrorJson == [error |-> "invalid_grant"]

\* the body of a gateway's error page
NotJson == [raw |-> "Bad Gateway"]

RawAccount ==
    [name |-> "cheque", currency |-> "ZAR", branchCode |-> "051001",
     bankId |-> "absa", accountType |-> "current", accountNumber |-> "123",
     supportsPaymentInitiation |-> TRUE]

\* int(...) on the branch codes the provider sends
ParseInt(s) == CASE s = "051001" -> 51001

ApiBodies ==
    {[data |-> [user |-> [bankAccounts |-> <<RawAccount>>]]],
     [errors |-> <<[message |-> "invalid token"]>>],
     [errors |-> <<>>]}

\* ------------------------------------------------------------------ locals

\* op, user, state: the method running on the thread and its arguments;
\* req, td: its local variables;
\* calls: the posts to the token endpoint it has made
NoCall ==
    [op |-> "none", user |-> 0, state |-> ForgedState, req |-> NoReq,
     td |-> NoToken, calls |-> 0]

NewCall(op, user) == [NoCall EXCEPT !.op = op, !.user = user]

\* the method of call c ends: outcome is "returned" or the exception raised,
\* ret the value returned or the exception's message
Finish(c, outcome, ret) ==
    [op |-> c.op, user |-> c.user, calls |-> c.calls, outcome |-> outcome,
     ret |-> ret]

NoResult == Finish(NoCall, "none", NoRet)

\* a row left in the database file by an earlier run of the server: a token
\* set of user u that lapses at time lapse
PriorRow(u, lapse) == td_as_tuple(from_json(TokenJson(0 - u, lapse), 0))

Init ==
    /\ now = 0
    /\ store \in [Users -> {NoRow}]
                 \cup {[u \in Users |-> PriorRow(u, lapse)] : lapse \in {0, 1}}
    /\ pending = [u \in Users |-> NoReq]
    /\ nextRand = 1
    /\ nextJti = 1
    /\ issued = 0
    /\ latest = [u \in Users |-> IF store[u] = NoRow THEN 0 ELSE 0 - u]
    /\ redirects = [u \in Users |-> {}]
    /\ ops = 0
    /\ pc = [p \in Procs |-> "idle"]
    /\ call = [p \in Procs |-> NoCall]
    /\ net = [p \in Procs |-> NoMsg]
    /\ last = NoResult

\* time passes
Tick ==
    /\ now < MaxTime
    /\ now' = now + 1
    /\ UNCHANGED <<store, pending, nextRand, nextJti, issued, latest, redirects,
                   ops, pc, call, net, last>>

\* ------------------------------------------------------- Stitch operations

\* Stitch.should_authorize(u)
ShouldAuthorize(p, u) ==
    /\ pc[p] = "idle"
    /\ ops < MaxOps
    /\ ops' = ops + 1
    /\ last' = Finish(NewCall("should_authorize", u), "returned",
                      [bool |-> should_authorize(store, u)])
    /\ UNCHANGED <<now, store, pending, nextRand, nextJti, issued, latest,
                   redirects, pc, call, net>>

\* the authorization URL: the endpoint and the percent-encoded parameters
AuthorizationUrl(state, nonce, code_challenge) ==
    [endpoint |-> "https://secure.stitch.money/connect/authorize",
     client_id |-> quote(client_id),
     scope |-> quote("openid accounts offline_access"),
     response_type |-> quote("code"),
     redirect_uri |-> quote(redirect_uri),
     nonce |-> quote_b64(nonce),
     state |-> quote_b64(state),
     code_challenge |-> quote_b64(code_challenge),
     code_challenge_method |-> quote("S256")]

\* Stitch.initiate_authorization(u); the URL goes to u's browser
InitiateAuthorization(p, u) ==
    /\ pc[p] = "idle"
    /\ ops < MaxOps
    /\ ops' = ops + 1
    /\ LET state == gen_random_base64_str(nextRand)
           nonce == gen_random_base64_str(nextRand + 1)
           pair == gen_code_challenge_and_verifier(nextRand + 2)
           url == AuthorizationUrl(state, nonce, pair[1])
       IN  /\ pending' = pending_put(pending, u,
                                     [code_verifier |-> pair[2], state |-> state])
           /\ redirects' = [redirects EXCEPT ![u] = @ \cup {url}]
           /\ last' = Finish(NewCall("initiate_authorization", u), "returned",
                             [url |-> url])
    /\ nextRand' = nextRand + 3
    /\ UNCHANGED <<now, store, nextJti, issued, latest, pc, call, net>>

\* the state values u's browser can send back: those of the URLs it was
\* given, or a forged one
ReturnedStates(u) == {url.state : url \in redirects[u]} \cup {ForgedState}

\* the form posted to the token endpoint by complete_authorization
ExchangeParams(code, code_verifier, assertion) ==
    [grant_type |-> "authorization_code",
     client_id |-> client_id,
     code |-> code,
     redirect_uri |-> redirect_uri,
     code_verifier |-> code_verifier,
     client_assertion_type |-> "urn:ietf:params:oauth:client-assertion-type:jwt-bearer",
     client_assertion |-> assertion]

\* the form posted to the token endpoint by _get_token
RefreshParams(refresh_token, assertion) ==
    [grant_type |-> "refresh_token",
     client_id |-> client_id,
     refresh_token |-> refresh_token,
     client_assertion_type |-> "urn:ietf:params:oauth:client-assertion-type:jwt-bearer",
     client_assertion |-> assertion]

\* how requests.post followed by TokenDetails.from_json ends on the answer
\* msg of the token endpoint: with the exception of requests, of json.loads
\* or of the dict lookup, which the caller of the method gets, or normally
\* with every answer taken for a token set
response_outcome_swallowed(msg) == "returned"

\* how requests.post followed by TokenDetails.from_json ends on the answer
\* msg of the token endpoint: normally, or with the exception of requests, of
\* json.loads or of the dict lookup, none of which the methods catch
response_outcome(msg) ==
    IF msg.kind = "network_error" THEN "ConnectionError"
    ELSE IF ~Parses(msg.body) THEN "JSONDecodeError"
    ELSE IF ~Decodes(msg.body) THEN "KeyError"
    ELSE "returned"

\* the ways the token endpoint fails a request: no answer at all, an error
\* body, a page that is no JSON
TokenFailures ==
    {[kind |-> "network_error"],
     [kind |-> "response", status |-> 400, body |-> ErrorJson],
     [kind |-> "response", status |-> 502, body |-> NotJson]}

\* what requests.post of thread p can come back with: the token set the
\* endpoint has issued for it or, as long as none is issued, a failure
Answers(p) ==
    IF net[p].kind = "response" THEN {net[p]}
    ELSE IF net[p].kind = "token_request" THEN TokenFailures
    ELSE {}

\* requests.post(url, params) leaves the thread
TokenRequest(params) == [kind |-> "token_request", url |-> TokenUrl, params |-> params]

\* Stitch.complete_authorization(u, code, st), up to requests.post
CompleteAuthorization(p, u, code, st) ==
    /\ pc[p] = "idle"
    /\ ops < MaxOps
    /\ ops' = ops + 1
    /\ LET req == pending_lookup(pending, u)
           c == NewCall("complete_authorization", u)
       IN  IF req = NoReq
           THEN /\ last' = Finish(c, "KeyError", NoRet)
                /\ UNCHANGED <<pc, call, net, nextJti>>
           ELSE /\ call' = [call EXCEPT ![p] =
                              [c EXCEPT !.state = st, !.req = req, !.calls = 1]]
                /\ net' = [net EXCEPT ![p] =
                             TokenRequest(ExchangeParams(code, req.code_verifier,
                                             encode_client_jwt(now, nextJti)))]
                /\ nextJti' = nextJti + 1
                /\ pc' = [pc EXCEPT ![p] = "ca_post"]
                /\ UNCHANGED last
    /\ UNCHANGED <<now, store, pending, nextRand, issued, latest, redirects>>

\* Stitch.complete_authorization from the response of requests.post on
CompleteAuthorizationReturn(p) ==
    /\ pc[p] = "ca_post"
    /\ pc' = [pc EXCEPT ![p] = "idle"]
    /\ net' = [net EXCEPT ![p] = NoMsg]
    /\ call' = [call EXCEPT ![p] = NoCall]
    /\ \E rsp \in Answers(p) :
          /\ last' = Finish(call[p], response_outcome(rsp), NoRet)
          /\ IF rsp.kind = "network_error" \/ ~Decodes(rsp.body)
             THEN UNCHANGED store
             ELSE LET td == from_json(rsp.body, now)
                  IN  store' = set_token_details(store, call[p].user, td)
    /\ UNCHANGED <<now, pending, nextRand, nextJti, issued, latest, redirects, ops>>

\* the request get_bank_accounts posts to the data API
ApiRequest(td) ==
    [kind |-> "api_request",
     url |-> GraphqlUrl,
     headers |-> [Content_Type |-> "application/json",
                  Authorization |-> <<"Bearer", td.access_token>>]]

\* the text of the exception get_bank_accounts raises when _get_token
\* returns None
NotAuthorizedMessage ==
    [text |-> "User not authorized or error retrieving token",
     status |-> <<>>, error |-> <<>>]

\* Stitch.get_bank_accounts(u), with its call of _get_token, up to the first
\* requests.post
GetBankAccounts(p, u) ==
    /\ pc[p] = "idle"
    /\ ops < MaxOps
    /\ ops' = ops + 1
    /\ LET got == get_token(store, u, now)
           td == got.td
           c == NewCall("get_bank_accounts", u)
       IN  IF got.outcome = "returned" /\ td = NoToken
           THEN /\ last' = Finish(c, "Exception", [message |-> NotAuthorizedMessage])
                /\ UNCHANGED <<pc, call, net, nextJti>>
           ELSE IF got.outcome = "refresh"
           THEN /\ call' = [call EXCEPT ![p] = [c EXCEPT !.td = td, !.calls = 1]]
                /\ net' = [net EXCEPT ![p] =
                             TokenRequest(RefreshParams(td.refresh_token,
                                             encode_client_jwt(now, nextJti)))]
                /\ nextJti' = nextJti + 1
                /\ pc' = [pc EXCEPT ![p] = "gt_post"]
                /\ UNCHANGED last
           ELSE /\ call' = [call EXCEPT ![p] = [c EXCEPT !.td = td]]
                /\ net' = [net EXCEPT ![p] = ApiRequest(td)]
                /\ pc' = [pc EXCEPT ![p] = "api_post"]
                /\ UNCHANGED <<nextJti, last>>
    /\ UNCHANGED <<now, store, pending, nextRand, issued, latest, redirects>>

\* Stitch._get_token from the response of the refresh post on, and
\* get_bank_accounts up to its post to the data API
GetTokenReturn(p) ==
    /\ pc[p] = "gt_post"
    /\ \E rsp \in Answers(p) :
          IF rsp.kind = "network_error" \/ ~Decodes(rsp.body)
          THEN /\ last' = Finish(call[p], response_outcome(rsp), NoRet)
               /\ call' = [call EXCEPT ![p] = NoCall]
               /\ pc' = [pc EXCEPT ![p] = "idle"]
               /\ net' = [net EXCEPT ![p] = NoMsg]
               /\ UNCHANGED store
          ELSE LET td == from_json(rsp.body, now)
               IN  /\ store' = set_token_details(store, call[p].user, td)
                   /\ call' = [call EXCEPT ![p].td = td]
                   /\ net' = [net EXCEPT ![p] = ApiRequest(td)]
                   /\ pc' = [pc EXCEPT ![p] = "api_post"]
                   /\ UNCHANGED last
    /\ UNCHANGED <<now, pending, nextRand, nextJti, issued, latest, redirects, ops>>

\* BankAccount._from_api_res
BankAccount_from_api_res(r) ==
    [name |-> r.name,
     currency |-> r.currency,
     branch_code |-> ParseInt(r.branchCode),
     bank_id |-> r.bankId,
     account_type |-> r.accountType,
     account_number |-> r.accountNumber,
     supports_payment_initiation |-> r.supportsPaymentInitiation]

\* the text of the exception get_bank_accounts raises, as its parts
ErrMessage(status, has_errors, errors) ==
    [text |-> "Error retrieving user's stitch data",
     status |-> IF status # 200 THEN <<status>> ELSE <<>>,
     error |-> IF has_errors THEN <<errors[1].message>> ELSE <<>>]

\* what requests.post to the data API can come back with: a status and a
\* JSON body, or a failure of the connection
ApiResponses ==
    {[kind |-> "response", status |-> status, body |-> body] :
        status \in {200, 401}, body \in ApiBodies}
    \cup {[kind |-> "network_error"]}

\* Stitch.get_bank_accounts from the response rsp of the data API on
GetBankAccountsResult(c, rsp) ==
    IF rsp.kind = "network_error"
    THEN Finish(c, "ConnectionError", NoRet)
    ELSE LET res == rsp.body
             has_errors == "errors" \in DOMAIN res  \* errors is not None
             errors == IF has_errors THEN res.errors ELSE <<>>
         IN  IF rsp.status = 200 /\ ~has_errors
             THEN IF "data" \in DOMAIN res
                  THEN LET raw == res.data.user.bankAccounts
                       IN  Finish(c, "returned",
                                  [accounts |->
                                     [i \in DOMAIN raw |->
                                        BankAccount_from_api_res(raw[i])]])
                  ELSE Finish(c, "KeyError", NoRet)
             ELSE IF has_errors /\ errors = <<>>
             THEN Finish(c, "IndexError", NoRet)
             ELSE Finish(c, "Exception",
                         [message |-> ErrMessage(rsp.status, has_errors, errors)])

\* the data API answers the request of thread p and get_bank_accounts runs
\* to its end
GetBankAccountsReturn(p) ==
    /\ pc[p] = "api_post"
    /\ net[p].kind = "api_request"
    /\ \E rsp \in ApiResponses : last' = GetBankAccountsResult(call[p], rsp)
    /\ call' = [call EXCEPT ![p] = NoCall]
    /\ pc' = [pc EXCEPT ![p] = "idle"]
    /\ net' = [net EXCEPT ![p] = NoMsg]
    /\ UNCHANGED <<now, store, pending, nextRand, nextJti, issued, latest,
                   redirects, ops>>

\* SqliteUserTokenStore.delete_expired_tokens()
DeleteExpiredTokens ==
    /\ ops < MaxOps
    /\ ops' = ops + 1
    /\ store' = delete_expired_tokens(store, now)
    /\ UNCHANGED <<now, pending, nextRand, nextJti, issued, latest, redirects,
                   pc, call, net, last>>

\* ------------------------------------------------------------- environment

\* the token endpoint takes the request of thread p and issues a new token
\* set; its failures change nothing at the provider and are drawn where the
\* thread takes the answer (Answers)
TokenEndpoint(p) ==
    /\ net[p].kind = "token_request"
    /\ issued' = issued + 1
    /\ latest' = [latest EXCEPT ![call[p].user] = issued + 1]
    /\ net' = [net EXCEPT ![p] =
                 [kind |-> "response", status |-> 200,
                  body |-> TokenJson(issued + 1, ExpiresIn)]]
    /\ UNCHANGED <<now, store, pending, nextRand, nextJti, redirects, ops, pc,
                   call, last>>

Next ==
    \/ Tick
    \/ DeleteExpiredTokens
    \/ \E p \in Procs, u \in Users : ShouldAuthorize(p, u)
    \/ \E p \in Procs, u \in Users : InitiateAuthorization(p, u)
    \/ \E p \in Procs, u \in Users, code \in Codes :
          \E st \in ReturnedStates(u) : CompleteAuthorization(p, u, code, st)
    \/ \E p \in Procs : CompleteAuthorizationReturn(p)
    \/ \E p \in Procs, u \in Users : GetBankAccounts(p, u)
    \/ \E p \in Procs : GetTokenReturn(p)
    \/ \E p \in Procs : GetBankAccountsReturn(p)
    \/ \E p \in Procs : TokenEndpoint(p)

Spec == Init /\ [][Next]_vars

\* ------------------------------------------- TokenDetails through its JSON

\* In RoundTripSpec the clock has a resolution below the second: now and the
\* expiry times count ticks.  The store holds any token set, lapsed or not;
\* RoundTrip(u) reads the one of user u, serializes it with to_json and
\* parses the text back with from_json, both at the instant now.

MaxTicks == MaxSeconds * TicksPerSecond

\* rows with every time of expiry
RoundTripRows(u) ==
    {td_as_tuple(from_json(TokenJson(0 - u, lapse), 0)) : lapse \in 0..MaxTicks}

RoundTripInit ==
    /\ now \in 0..MaxTicks
    /\ store \in {st \in [Users -> UNION {RoundTripRows(u) : u \in Users}] :
                     \A u \in Users : st[u] \in RoundTripRows(u)}
    /\ pending = [u \in Users |-> NoReq]
    /\ nextRand = 1
    /\ nextJti = 1
    /\ issued = 0
    /\ latest = [u \in Users |-> 0 - u]
    /\ redirects = [u \in Users |-> {}]
    /\ ops = 0
    /\ pc = [p \in Procs |-> "idle"]
    /\ call = [p \in Procs |-> NoCall]
    /\ net = [p \in Procs |-> NoMsg]
    /\ last = NoResult

\* part of a second passes
RoundTripTick ==
    /\ now < MaxTicks
    /\ now' = now + 1
    /\ UNCHANGED <<store, pending, nextRand, nextJti, issued, latest, redirects,
                   ops, pc, call, net, last>>

\* TokenDetails.from_json(td.to_json()) on the stored token of user u
RoundTrip(u) ==
    /\ LET td == get_token_details(store, u)
           json == to_json(td, now)
       IN  last' = [op |-> "to_json_from_json", user |-> u, at |-> now,
                    td |-> td, json |-> json,
                    back |-> from_json(LoadsInTicks(json), now)]
    /\ UNCHANGED <<now, store, pending, nextRand, nextJti, issued, latest,
                   redirects, ops, pc, call, net>>

RoundTripNext == RoundTripTick \/ \E u \in Users : RoundTrip(u)

RoundTripSpec == RoundTripInit /\ [][RoundTripNext]_vars

\* ================================================================== claims

\* a token set as the store holds it for user u, read back
Stored(u) == get_token_details(store, u)

\* C1: complete_authorization called with a returned_state different from
\* the state stored for the user's pending request is aborted: no request to
\* the token endpoint leaves the thread.
C1_StateMismatchAborts ==
    \A p \in Procs :
        (pc[p] = "ca_post" /\ call[p].op = "complete_authorization")
            => call[p].state = call[p].req.state

\* C3: is_expired() is true exactly when expires_at <= now.
C3_ExpiredIffLapsed ==
    \A u \in Users :
        store[u] # NoRow =>
            (is_expired(Stored(u), now)
                <=> Stored(u).expires_at_seconds_from_epoch <= now)

\* C2: obtaining a token for a user whose stored token lapsed in the past
\* posts one refresh to the token endpoint, and the token of the response is
\* stored; for a stored token that lapses in the future nothing is posted to
\* the token endpoint and the stored token is the one used.
C2_RefreshExactlyWhenLapsed ==
    [][\A p \in Procs :
          /\ \A u \in Users :
                (GetBankAccounts(p, u) /\ store[u] # NoRow) =>
                    /\ Stored(u).expires_at_seconds_from_epoch < now =>
                          /\ net'[p].kind = "token_request"
                          /\ net'[p].params.grant_type = "refresh_token"
                          /\ call'[p].calls = 1
                    /\ Stored(u).expires_at_seconds_from_epoch > now =>
                          /\ net'[p].kind = "api_request"
                          /\ call'[p].calls = 0
                          /\ call'[p].td = Stored(u)
          /\ (GetTokenReturn(p) /\ net[p].kind = "response" /\ Decodes(net[p].body)) =>
                /\ store'[call[p].user][2] = net[p].body.access_token
                /\ call'[p].calls = 1
      ]_vars

\* C4: when complete_authorization ends, with the exchange done or failed,
\* the request it consumed is no longer the user's pending request.
C4_PendingConsumed ==
    [][\A p \in Procs :
          CompleteAuthorizationReturn(p) => pending'[call[p].user] # call[p].req
      ]_vars

\* C5: after a second initiate_authorization for a user, completing with
\* the state the first call issued fails and stores no token.
C5_SupersededStateFails ==
    [][\A p \in Procs :
          (/\ CompleteAuthorizationReturn(p)
           /\ call[p].state \in {url.state : url \in redirects[call[p].user]}
           /\ call[p].state # call[p].req.state)
              => (store' = store /\ last'.outcome # "returned")
      ]_vars

\* C6: complete_authorization for a user without a pending request raises
\* the KeyError of the lookup, posts nothing to the token endpoint and leaves
\* the token store and the pending requests as they were.
C6_NoPendingRaises ==
    [][\A p \in Procs, u \in Users, code \in Codes :
          \A st \in ReturnedStates(u) :
              (CompleteAuthorization(p, u, code, st) /\ pending[u] = NoReq) =>
                  /\ last'.op = "complete_authorization"
                  /\ last'.user = u
                  /\ last'.outcome = "KeyError"
                  /\ last'.calls = 0
                  /\ pc'[p] = "idle"
                  /\ net' = net
                  /\ nextJti' = nextJti
                  /\ store' = store
                  /\ pending' = pending
      ]_vars

C6_Witness ==
    /\ last.op = "complete_authorization"
    /\ last.outcome = "KeyError"
    /\ last.calls = 0
    /\ pending[last.user] = NoReq
    /\ \A p \in Procs : net[p] = NoMsg

\* C7: should_authorize(user) is true exactly when the store holds no row
\* for the user, whatever the row's expiry and whether or not a request is
\* pending; it is what the operation returns, and it is false right after a
\* row is written for the user.
C7_ShouldAuthorizeIffNoRow ==
    /\ [](\A u \in Users : should_authorize(store, u) <=> store[u] = NoRow)
    /\ [][/\ \A p \in Procs, u \in Users :
                ShouldAuthorize(p, u) => last'.ret.bool = (store[u] = NoRow)
          /\ \A u \in Users :
                (store'[u] # store[u] /\ store'[u] # NoRow)
                    => ~should_authorize(store', u)
         ]_vars

\* should_authorize answered False for a user whose stored token has lapsed
\* and who has a request pending
C7_Witness ==
    /\ last.op = "should_authorize"
    /\ last.ret.bool = FALSE
    /\ store[last.user] # NoRow
    /\ Stored(last.user).expires_at_seconds_from_epoch <= now
    /\ pending[last.user] # NoReq

\* C8: when complete_authorization receives a successful token response,
\* the store then holds for the user the token fields of the response, with
\* expires_at = the time of receipt + the response's expires_in.
C8_StoredTokenOfResponse ==
    [][\A p \in Procs :
          (/\ CompleteAuthorizationReturn(p)
           /\ net[p].kind = "response"
           /\ Decodes(net[p].body)) =>
              /\ get_token_details(store', call[p].user) =
                    [id_token |-> net[p].body.id_token,
                     access_token |-> net[p].body.access_token,
                     expires_at_seconds_from_epoch |-> now + net[p].body.expires_in,
                     token_type |-> net[p].body.token_type,
                     refresh_token |-> net[p].body.refresh_token,
                     scope |-> net[p].body.scope]
              /\ last'.outcome = "returned"
      ]_vars

\* the first token set ever issued is stored, after time has passed, for a
\* user who had none
C8_Witness ==
    /\ last.op = "complete_authorization"
    /\ last.outcome = "returned"
    /\ \A u \in Users : latest[u] >= 0
    /\ issued = 1
    /\ now > 0
    /\ store[last.user] # NoRow
    /\ Stored(last.user).access_token = <<"at", 1>>
    /\ Stored(last.user).expires_at_seconds_from_epoch = now + ExpiresIn

\* C9: once every operation has ended, the last of them one that refreshed
\* the token of user u, the token stored for u is the one issued last for u.
C9_StoredIsLatestIssued ==
    (/\ \A p \in Procs : pc[p] = "idle"
     /\ last.op = "get_bank_accounts"
     /\ last.calls = 1
     /\ store[last.user] # NoRow)
        => Stored(last.user).access_token = <<"at", latest[last.user]>>

\* a step of an operation of thread p on user u
OperationOn(p, u) ==
    \/ InitiateAuthorization(p, u)
    \/ \E code \in Codes : \E st \in ReturnedStates(u) :
          CompleteAuthorization(p, u, code, st)
    \/ GetBankAccounts(p, u)
    \/ /\ call[p].user = u
       /\ \/ CompleteAuthorizationReturn(p)
          \/ GetTokenReturn(p)
          \/ GetBankAccountsReturn(p)

\* C10: an operation on user u changes neither the pending request nor the
\* stored token of another user v, and the code_verifier in an exchange for
\* v was issued to v, in one of v's authorization URLs, and to nobody else.
C10_UsersIndependent ==
    /\ [][\A p \in Procs, u \in Users :
             OperationOn(p, u) =>
                 \A v \in Users \ {u} :
                     pending'[v] = pending[v] /\ store'[v] = store[v]
         ]_vars
    /\ [](\A p \in Procs :
             (net[p].kind = "token_request"
              /\ net[p].params.grant_type = "authorization_code") =>
                 LET challenge == Sha256B64(net[p].params.code_verifier)
                 IN  /\ \E url \in redirects[call[p].user] :
                            url.code_challenge = challenge
                     /\ \A u \in Users \ {call[p].user} :
                            \A url \in redirects[u] :
                                url.code_challenge # challenge)

\* the exchange of one user is in flight while another user, who holds a
\* row, has a request pending
C10_Witness ==
    \E p \in Procs :
        /\ net[p].kind = "token_request"
        /\ net[p].params.grant_type = "authorization_code"
        /\ \E u \in Users \ {call[p].user} :
              /\ pending[u] # NoReq
              /\ pending[u] # pending[call[p].user]
              /\ store[u] # NoRow

\* C11 as stated: for a user without a stored token both _get_token and
\* get_bank_accounts fail with a not-authorized error, nothing is posted to
\* the token endpoint or the data API, and the store is not written.
C11_NoTokenFails ==
    [][\A p \in Procs, u \in Users :
          (store[u] = NoRow /\ GetBankAccounts(p, u)) =>
              /\ get_token(store, u, now).outcome # "returned"
              /\ last'.outcome = "Exception"
              /\ last'.ret = [message |-> NotAuthorizedMessage]
              /\ net' = net
              /\ nextJti' = nextJti
              /\ store' = store
      ]_vars

\* C11, amended: for a user without a stored token _get_token returns None
\* without raising, and get_bank_accounts, on that None, raises an Exception
\* whose text says the user is not authorized; nothing is posted to the
\* token endpoint or the data API, and the store is not written.
C11_NoTokenRaisesInCaller ==
    [][\A p \in Procs, u \in Users :
          (store[u] = NoRow /\ GetBankAccounts(p, u)) =>
              /\ get_token(store, u, now) = [outcome |-> "returned", td |-> NoToken]
              /\ last' = Finish(NewCall("get_bank_accounts", u), "Exception",
                                [message |-> NotAuthorizedMessage])
              /\ last'.calls = 0
              /\ pc'[p] = "idle"
              /\ net' = net
              /\ nextJti' = nextJti
              /\ store' = store
      ]_vars

\* get_bank_accounts has raised for a user who has no row, with no request
\* in flight
C11_Witness ==
    /\ last.op = "get_bank_accounts"
    /\ last.outcome = "Exception"
    /\ last.ret = [message |-> NotAuthorizedMessage]
    /\ last.calls = 0
    /\ store[last.user] = NoRow
    /\ \A p \in Procs : net[p] = NoMsg /\ pc[p] = "idle"

\* the exceptions a failed call of the token endpoint ends with
TokenCallErrors == {"ConnectionError", "JSONDecodeError", "KeyError"}

\* C12: when the token endpoint fails the exchange of complete_authorization
\* (no answer, a body that is no JSON, an error body without the token
\* fields), complete_authorization ends with an exception that reaches its
\* caller and the store is as it was before: set_token_details is not called.
C12_ExchangeFailureStoresNothing ==
    [][\A p \in Procs :
          (pc[p] = "ca_post" /\ net[p].kind = "token_request"
           /\ CompleteAuthorizationReturn(p)) =>
              /\ last'.op = "complete_authorization"
              /\ last'.user = call[p].user
              /\ last'.outcome \in TokenCallErrors
              /\ last'.calls = 1
              /\ store' = store
              /\ pc'[p] = "idle"
              /\ net'[p] = NoMsg
      ]_vars

\* an exchange has failed on a body that is no JSON, for a user who had a
\* token stored: it is still the stored one
C12_Witness ==
    /\ last.op = "complete_authorization"
    /\ last.outcome = "JSONDecodeError"
    /\ last.calls = 1
    /\ issued = 0
    /\ pending[last.user] # NoReq
    /\ store[last.user] = PriorRow(last.user, 1)

\* C13: when the token endpoint fails a refresh, the exception reaches the
\* caller of get_bank_accounts, the refresh was posted once and is not
\* posted again, the stored token is the one from before, and nothing is
\* posted to the data API.
C13_RefreshFailureSurfaces ==
    [][\A p \in Procs :
          (pc[p] = "gt_post" /\ net[p].kind = "token_request"
           /\ GetTokenReturn(p)) =>
              /\ last'.op = "get_bank_accounts"
              /\ last'.user = call[p].user
              /\ last'.outcome \in TokenCallErrors
              /\ call[p].calls = 1
              /\ last'.calls = 1
              /\ nextJti' = nextJti
              /\ store' = store
              /\ pc'[p] = "idle"
              /\ net'[p] = NoMsg
      ]_vars

\* a refresh has failed with no answer from the token endpoint; the token
\* that was to be refreshed is still the stored one
C13_Witness ==
    /\ last.op = "get_bank_accounts"
    /\ last.outcome = "ConnectionError"
    /\ last.calls = 1
    /\ issued = 0
    /\ store[last.user] = PriorRow(last.user, 1)
    /\ \A p \in Procs : pc[p] = "idle" /\ net[p] = NoMsg

\* C14: get_bank_accounts returns the mapped list of accounts exactly when
\* the data API answers 200 without an errors field; on every other answer
\* (another status, or an errors array, empty or not) it raises its error
\* with the status of a non-200 answer and with the first error message
\* when there is one.
C14_ApiErrorOnEveryOtherAnswer ==
    [][\A p \in Procs : \A rsp \in ApiResponses :
          (/\ pc[p] = "api_post"
           /\ rsp.kind = "response"
           /\ GetBankAccountsReturn(p)
           /\ last' = GetBankAccountsResult(call[p], rsp)) =>
              LET has_errors == "errors" \in DOMAIN rsp.body
              IN  IF rsp.status = 200 /\ ~has_errors
                  THEN /\ last'.outcome = "returned"
                       /\ last'.ret.accounts =
                             <<[name |-> "cheque", currency |-> "ZAR",
                                branch_code |-> 51001, bank_id |-> "absa",
                                account_type |-> "current",
                                account_number |-> "123",
                                supports_payment_initiation |-> TRUE]>>
                  ELSE /\ last'.outcome = "Exception"
                       /\ rsp.status # 200 =>
                             last'.ret.message.status = <<rsp.status>>
                       /\ (has_errors /\ rsp.body.errors # <<>>) =>
                             last'.ret.message.error =
                                <<rsp.body.errors[1].message>>
      ]_vars

\* the five fields of a token set that are not its expiry
StringFields(td) ==
    <<td.id_token, td.access_token, td.token_type, td.refresh_token, td.scope>>

\* n is the number of whole seconds in the d ticks from now to the expiry,
\* 0 if the expiry has passed
WholeSecondsLeft(n, d) ==
    IF d <= 0 THEN n = 0
    ELSE n * TicksPerSecond <= d /\ d < (n + 1) * TicksPerSecond

\* C15 as stated: to_json followed by from_json at the same instant gives
\* back the five string fields and, for every token set, an expiry within
\* one second of the original, the serialized expires_in being the whole
\* seconds left, 0 for a token set that has lapsed.
C15_RoundTripWithinOneSecond ==
    last.op = "to_json_from_json" =>
        LET d == last.td.expires_at_seconds_from_epoch
                    - last.back.expires_at_seconds_from_epoch
        IN  /\ StringFields(last.back) = StringFields(last.td)
            /\ WholeSecondsLeft(last.json.expires_in,
                                last.td.expires_at_seconds_from_epoch - last.at)
            /\ d <= TicksPerSecond
            /\ 0 - d <= TicksPerSecond

\* C15, amended: to_json followed by from_json at the same instant gives
\* back the five string fields; the serialized expires_in is the whole
\* seconds left, 0 for a token set that has lapsed; the expiry that comes
\* back is less than one second before the original for a token set that has
\* not lapsed, and is the instant of the round trip (later than the original
\* by the time since the lapse, however long) for one that has.
C15_RoundTripUpToLapse ==
    last.op = "to_json_from_json" =>
        LET original == last.td.expires_at_seconds_from_epoch
            back == last.back.expires_at_seconds_from_epoch
        IN  /\ StringFields(last.back) = StringFields(last.td)
            /\ WholeSecondsLeft(last.json.expires_in, original - last.at)
            /\ original >= last.at =>
                  (back <= original /\ original - back < TicksPerSecond)
            /\ original < last.at => back = last.at

\* a token set that lapsed more than a second ago has gone through its
\* JSON: expires_in is 0 and the expiry that comes back is the present
C15_Witness ==
    /\ last.op = "to_json_from_json"
    /\ last.td.expires_at_seconds_from_epoch + TicksPerSecond < last.at
    /\ last.json.expires_in = 0
    /\ last.back.expires_at_seconds_from_epoch = last.at

\* C16: the challenge of every pair the PKCE generator returns is the
\* unpadded URL-safe base64 of the SHA-256 of the verifier, and the
\* code_challenge in the URL initiate_authorization returns is the challenge
\* of the code_verifier now stored in the user's pending request.
C16_ChallengeOfPendingVerifier ==
    /\ \A u \in Users : \A url \in redirects[u] :
          \E n \in 1..(nextRand - 1) :
              LET pair == gen_code_challenge_and_verifier(n)
              IN  url.code_challenge = pair[1] /\ pair[1] = Sha256B64(pair[2])
    /\ last.op = "initiate_authorization" =>
          /\ pending[last.user] # NoReq
          /\ last.ret.url.code_challenge =
                Sha256B64(pending[last.user].code_verifier)
          /\ last.ret.url.code_challenge_method = "S256"

\* the second initiate_authorization for a user has returned its URL
C16_Witness ==
    /\ last.op = "initiate_authorization"
    /\ Cardinality(redirects[last.user]) = 2
    /\ last.ret.url \in redirects[last.user]
    /\ last.ret.url.code_challenge = Sha256B64(pending[last.user].code_verifier)

\* C17: delete_expired_tokens removes exactly the rows with
\* expires_at <= now; the rows with expires_at > now and the pending
\* requests are as before.
C17_DeleteExactlyLapsed ==
    [][DeleteExpiredTokens =>
          /\ \A u \in Users :
                store'[u] =
                    IF store[u] # NoRow
                       /\ Stored(u).expires_at_seconds_from_epoch <= now
                    THEN NoRow
                    ELSE store[u]
          /\ pending' = pending
      ]_vars

\* the row of one user, lapsing at this instant, is gone; the row of
\* another user, who has a request pending, lapses later and is there
C17_Witness ==
    \E u, v \in Users :
        /\ now = 0
        /\ latest[u] < 0
        /\ store[u] = NoRow
        /\ store[v] # NoRow
        /\ Stored(v).expires_at_seconds_from_epoch > now
        /\ pending[v] # NoReq

\* C18: set_token_details(user, td), as called by the exchange and by the
\* refresh, leaves one row for the user, from which get_token_details gives
\* back td in all six fields whatever the row was before; the rows of the
\* other users are untouched, and a TokenDetails another thread read earlier
\* is not changed under it.
C18_SetReplacesRow ==
    [][\A p \in Procs :
          (net[p].kind = "response"
           /\ (CompleteAuthorizationReturn(p) \/ GetTokenReturn(p))) =>
              LET user == call[p].user
                  td == from_json(net[p].body, now)
              IN  /\ DOMAIN store' = Users
                  /\ store'[user] # NoRow
                  /\ get_token_details(store', user) = td
                  /\ \A v \in Users \ {user} : store'[v] = store[v]
                  /\ \A q \in Procs \ {p} : call'[q].td = call[q].td
      ]_vars

\* a refresh has put the first token set the provider issued in the place
\* of the row a user had; the other user's row is the one it was
C18_Witness ==
    /\ last.op = "get_bank_accounts"
    /\ last.calls = 1
    /\ issued = 1
    /\ latest[last.user] = 1
    /\ store[last.user] # NoRow
    /\ Stored(last.user).refresh_token = <<"rt", 1>>
    /\ \A v \in Users \ {last.user} : store[v] = PriorRow(v, 1)

\* C19: every request posted to the token endpoint, for the exchange of a
\* code and for a refresh, carries a client assertion built as the request
\* is: iss = sub = the client id, iat = nbf = the time of building,
\* exp = that time + 3600, and a jti that no earlier assertion had (earlier
\* ones have the jti values below nextJti).
C19_FreshAssertionPerRequest ==
    /\ [](\A p \in Procs :
             net[p].kind = "token_request" =>
                 /\ net[p].params.client_assertion.payload.jti < nextJti
                 /\ \A q \in Procs \ {p} :
                        net[q].kind = "token_request" =>
                            net[q].params.client_assertion.payload.jti
                                # net[p].params.client_assertion.payload.jti)
    /\ [][\A p \in Procs :
             (net'[p].kind = "token_request" /\ net[p].kind # "token_request") =>
                 LET params == net'[p].params
                     claims == params.client_assertion.payload
                 IN  /\ params.grant_type \in {"authorization_code", "refresh_token"}
                     /\ params.client_assertion_type =
                           "urn:ietf:params:oauth:client-assertion-type:jwt-bearer"
                     /\ claims.aud = net'[p].url
                     /\ claims.iss = client_id
                     /\ claims.sub = client_id
                     /\ claims.iat = now
                     /\ claims.nbf = now
                     /\ claims.exp = now + 3600
                     /\ claims.jti >= nextJti
                     /\ nextJti' > claims.jti
         ]_vars

\* a refresh and an exchange are in flight, their assertions built at
\* different times
C19_Witness ==
    \E p, q \in Procs :
        /\ net[p].kind = "token_request"
        /\ net[p].params.grant_type = "refresh_token"
        /\ net[q].kind = "token_request"
        /\ net[q].params.grant_type = "authorization_code"
        /\ net[p].params.client_assertion.payload.iat
              # net[q].params.client_assertion.payload.iat
        /\ net[p].params.client_assertion.payload.jti
              # net[q].params.client_assertion.payload.jti

\* C20: a user's row, once stored, is removed by no step of
\* should_authorize, initiate_authorization, complete_authorization, a
\* refresh or get_bank_accounts, ended well or not, nor by the passing of
\* time: should_authorize stays false for the user.  Only
\* delete_expired_tokens removes a row (one that has lapsed); from then on
\* should_authorize is true and asking for the user's token refreshes
\* nothing: it finds no token.
C20_OnlyDeleteRemovesRow ==
    /\ [](\A u \in Users :
             store[u] = NoRow =>
                 /\ should_authorize(store, u)
                 /\ get_token(store, u, now) =
                       [outcome |-> "returned", td |-> NoToken])
    /\ [][\A u \in Users :
             /\ (store[u] # NoRow /\ ~DeleteExpiredTokens) =>
                   (store'[u] # NoRow /\ ~should_authorize(store', u))
             /\ (~should_authorize(store, u) /\ should_authorize(store', u)) =>
                   (DeleteExpiredTokens /\ store[u][3] <= now)
         ]_vars

\* should_authorize has answered True for a user whose row, left by an
\* earlier run, has been deleted
C20_Witness ==
    /\ last.op = "should_authorize"
    /\ last.ret.bool = TRUE
    /\ latest[last.user] < 0
    /\ store[last.user] = NoRow

====
